---------------------------- MODULE Spec2Model ----------------------------
(***************************************************************************)
(* Frame table (vm/frame.c) and page-fault handler (userprog/exception.c)  *)
(* of the Pintos virtual-memory core.                                      *)
(*                                                                         *)
(* Spec    : threads calling frame_alloc / frame_free / frame_unlock /     *)
(*           frame_try_pin / frame_unpin on the global frame table.        *)
(* SpecVM  : Spec without the callers of frame_try_pin / frame_unpin.      *)
(* SpecPF  : one user process taking page faults through page_fault().     *)
(***************************************************************************)
EXTENDS Integers, Sequences, FiniteSets

(* ------------------------------ bounds -------------------------------- *)
\* physical pages in the user pool (palloc PAL_USER); descriptor f is the
\* struct frame malloc'ed for kpage f
NumFrames == 2
\* supplemental page table entries, over all processes
NumPages == 3
\* swap slots
NumSlots == 1

Frames == 1..NumFrames
Pages == 1..NumPages
Slots == 1..NumSlots
\* two user processes, one thread each
Threads == {1, 2}

\* NULL pointer / "no thread" / "no slot"
NULL == 0

VARIABLES
  pool,        \* kpages still free in the user pool
  live,        \* frame descriptors malloc'ed and not freed
  frame,       \* frame[f] = [page, owner, lock, pinned]   (struct frame)
  frame_list,  \* static struct list frame_list, head first
  hand,        \* static struct list_elem *hand (NULL or the frame it points into)
  table_lock,  \* holder of table_lock, or NULL
  mutex_lock,  \* holder of mutex_lock, or NULL
  page,        \* page[p] = [frame, dirty, type, slot]      (struct page)
  pd,          \* pd[p] = [map, accessed, dirty]: the PTE of p in its owner's pagedir
  swap_used,   \* swap slots in use
  pc,          \* pc[t]: position of thread t
  t_page,      \* argument p of the frame_alloc thread t is in
  t_frame,     \* frame thread t works on (victim / returned frame)
  t_src,       \* the page thread t's frame_alloc evicted (NULL: fresh frame)
  panicked,    \* kernel PANIC / failed ASSERT happened
  scan,        \* the running frame_get_victim call: [allset, seen] (see NoScan)
  \* ---- the process taking page faults (SpecPF) ----
  spt,         \* spt[pg]: the SPT entry of user page pg, [type, writable]
  present,     \* user pages mapped in the process's page directory
  proc,        \* "running", "exited" (sys_exit) or "panic" (kernel PANIC)
  exit_status, \* the status given to sys_exit
  regs,        \* eip and eax of the interrupt frame when page_fault returns
  stack_pages, \* the pages whose SPT entry the stack-growth path made
  pf           \* the fault page_fault handled last

fvars == <<pool, live, frame, frame_list, hand, table_lock, mutex_lock, page, pd,
           swap_used, pc, t_page, t_frame, t_src, panicked, scan>>

pvars == <<spt, present, proc, exit_status, regs, stack_pages, pf>>

vars == <<fvars, pvars>>

(* ------------------------- fixed page attributes ----------------------- *)
\* p->owner: the thread (process) whose SPT holds p
PageOwner(p) == ((p - 1) % Cardinality(Threads)) + 1
\* p->writable, and the type the loader / stack growth registered
PageWritable(p) == p <= 2
InitType(p) == IF PageWritable(p) THEN "ZERO" ELSE "FILE"

\* f->pinned is a bool that frame_alloc never initialises: "garbage" is the
\* malloc'ed byte nobody wrote yet, which reads as true or as false
NoFrame == [page |-> NULL, owner |-> NULL, lock |-> NULL, pinned |-> "garbage"]

(* ------------------------------ list.h --------------------------------- *)
RECURSIVE SeqRemove(_, _)
SeqRemove(s, e) ==
  IF s = <<>> THEN <<>>
  ELSE IF Head(s) = e THEN SeqRemove(Tail(s), e)
       ELSE <<Head(s)>> \o SeqRemove(Tail(s), e)

list_remove(l, e) == SeqRemove(l, e)
list_push_back(l, e) == Append(l, e)
InList(l, e) == \E i \in 1..Len(l) : l[i] = e
IndexOf(l, e) == CHOOSE i \in 1..Len(l) : l[i] = e

SetMin(S) == CHOOSE x \in S : \A y \in S : x <= y

(* ------------------------------- Init ---------------------------------- *)
\* the trace of the while loop of frame_get_victim: seen is the frames the
\* hand reached in this call, in order (the first MaxSeen of them), allset
\* tells whether at its entry every listed frame was unlocked with the
\* accessed bit of its page set
NoScan == [allset |-> FALSE, seen |-> <<>>]
MaxSeen == NumFrames + 1
AllSet ==
  \A i \in 1..Len(frame_list) :
    /\ frame[frame_list[i]].lock = NULL
    /\ frame[frame_list[i]].page # NULL
    /\ pd[frame[frame_list[i]].page].accessed
Seen(sq, f) == IF Len(sq) < MaxSeen THEN Append(sq, f) ELSE sq

InitFrame ==
  /\ pool = Frames
  /\ live = {}
  /\ frame = [f \in Frames |-> NoFrame]
  /\ frame_list = <<>>
  /\ hand = NULL
  /\ table_lock = NULL
  /\ mutex_lock = NULL
  /\ page = [p \in Pages |-> [frame |-> NULL, dirty |-> FALSE, type |-> InitType(p), slot |-> NULL]]
  /\ pd = [p \in Pages |-> [map |-> NULL, accessed |-> FALSE, dirty |-> FALSE]]
  /\ swap_used = {}
  /\ pc = [t \in Threads |-> "idle"]
  /\ t_page = [t \in Threads |-> NULL]
  /\ t_frame = [t \in Threads |-> NULL]
  /\ t_src = [t \in Threads |-> NULL]
  /\ panicked = FALSE
  /\ scan = NoScan


\* PANIC() / failed ASSERT(): the kernel halts
Panic ==
  /\ panicked' = TRUE
  /\ UNCHANGED <<pool, live, frame, frame_list, hand, table_lock, mutex_lock, page, pd,
                 swap_used, pc, t_page, t_frame, t_src, scan, pvars>>

(* --------------------------- frame_alloc ------------------------------- *)
\* palloc_get_page (PAL_USER): first free page of the user pool, or NULL
palloc_get_page == IF pool = {} THEN NULL ELSE SetMin(pool)

\* the new descriptor: lock taken, __owner and page set, pinned left as it is
FreshFrame(fr, t, p) == [fr EXCEPT !.page = p, !.owner = PageOwner(p), !.lock = t]

\* frame_alloc, f->kpage != NULL branch
FrameAllocFresh(t, p) ==
  /\ ~panicked
  /\ pc[t] = "idle"
  /\ PageOwner(p) = t
  /\ page[p].frame = NULL
  /\ table_lock = NULL
  /\ palloc_get_page # NULL
  /\ LET f == palloc_get_page IN
       /\ pool' = pool \ {f}
       /\ live' = live \cup {f}
       /\ frame' = [frame EXCEPT ![f] = FreshFrame(frame[f], t, p)]
       /\ frame_list' = list_push_back(frame_list, f)
       /\ pc' = [pc EXCEPT ![t] = "holding"]
       /\ t_page' = [t_page EXCEPT ![t] = p]
       /\ t_frame' = [t_frame EXCEPT ![t] = f]
  /\ UNCHANGED <<hand, table_lock, mutex_lock, page, pd, swap_used, t_src, panicked, scan, pvars>>

\* frame_alloc, f->kpage == NULL branch up to the entry of frame_get_victim
FrameAllocEvict(t, p) ==
  /\ ~panicked
  /\ pc[t] = "idle"
  /\ PageOwner(p) = t
  /\ page[p].frame = NULL
  /\ table_lock = NULL
  /\ palloc_get_page = NULL
  /\ IF frame_list = <<>>
     THEN Panic                        \* ASSERT (!list_empty (&frame_list))
     ELSE /\ table_lock' = t
          /\ pc' = [pc EXCEPT ![t] = "sweep"]
          /\ t_page' = [t_page EXCEPT ![t] = p]
          /\ scan' = [allset |-> AllSet, seen |-> <<>>]
          /\ UNCHANGED <<pool, live, frame, frame_list, hand, mutex_lock, page, pd,
                         swap_used, t_frame, t_src, panicked, pvars>>

(* ------------------------- frame_get_victim ---------------------------- *)
\* a variant of frame_advance_hand that starts from list_begin every time
frame_advance_hand_from_begin ==
  IF frame_list = <<>> THEN {NULL} ELSE {Head(frame_list)}

\* frame_advance_hand: the frames the hand can land on; NULL stands for a
\* wild pointer (the sweep then faults in the kernel).  A hand that is NULL
\* takes list_begin; a hand on a listed frame takes list_next and wraps at
\* list_end; a hand left on a freed descriptor reads freed memory, so any
\* listed frame or a wild pointer can come out.
frame_advance_hand ==
  IF frame_list = <<>> THEN {NULL}
  ELSE IF hand = NULL THEN {Head(frame_list)}
  ELSE IF InList(frame_list, hand)
       THEN IF IndexOf(frame_list, hand) = Len(frame_list)
            THEN {Head(frame_list)}
            ELSE {frame_list[IndexOf(frame_list, hand) + 1]}
       ELSE {frame_list[i] : i \in 1..Len(frame_list)} \cup {NULL}

\* a variant of frame_lock_try_acquire that takes the lock whoever holds it
frame_lock_try_acquire_any(t, f) == TRUE

\* frame_lock_try_acquire: FALSE without trying when the caller owns the
\* frame's page and already holds its lock, else lock_try_acquire
frame_lock_try_acquire(t, f) ==
  IF PageOwner(frame[f].page) = t /\ frame[f].lock = t
  THEN FALSE
  ELSE frame[f].lock = NULL

\* page_was_accessed: the accessed bit of p's PTE (the caller clears it)
page_was_accessed(p) == pd[p].accessed

\* one iteration of the while loop of frame_get_victim
SweepStep(t) ==
  /\ ~panicked
  /\ pc[t] = "sweep"
  /\ \E f \in frame_advance_hand :
       IF f = NULL \/ frame[f].page = NULL
       THEN Panic
       ELSE /\ hand' = f
            /\ scan' = [scan EXCEPT !.seen = Seen(@, f)]
            /\ IF ~frame_lock_try_acquire(t, f)
               THEN \* continue
                    /\ UNCHANGED <<frame, frame_list, pd, pc, t_frame>>
               ELSE IF page_was_accessed(frame[f].page)
               THEN \* second chance: bit cleared, lock released, continue
                    /\ pd' = [pd EXCEPT ![frame[f].page].accessed = FALSE]
                    /\ UNCHANGED <<frame, frame_list, pc, t_frame>>
               ELSE \* victim found: stays locked, leaves the list
                    /\ frame' = [frame EXCEPT ![f].lock = t]
                    /\ frame_list' = list_remove(frame_list, f)
                    /\ pc' = [pc EXCEPT ![t] = "evict"]
                    /\ t_frame' = [t_frame EXCEPT ![t] = f]
                    /\ UNCHANGED pd
            /\ UNCHANGED <<pool, live, table_lock, mutex_lock, page, swap_used, t_page,
                           t_src, panicked, pvars>>

(* ------------------------- frame_do_eviction --------------------------- *)
\* swap_out: a free slot, NULL when the swap store is full
swap_out == IF Slots \ swap_used = {} THEN NULL ELSE SetMin(Slots \ swap_used)

\* a variant of frame_do_eviction that forgets pagedir_clear_page
EvictPte_keeps_mapping(pte) == pte

\* the PTE of src after pagedir_clear_page: not present, other bits kept
EvictPte(pte) == [pte EXCEPT !.map = NULL]

\* a variant of frame_do_eviction that forgets pagedir_is_dirty
EvictDirty_ignores_pte(src) == page[src].dirty

\* src->dirty |= pagedir_is_dirty (src->owner->pagedir, src->upage), read
\* after pagedir_clear_page
EvictDirty(src) == page[src].dirty \/ EvictPte(pd[src]).dirty

\* the ASSERTs of frame_alloc (eviction branch) and of frame_do_eviction
EvictAsserts(t, f, src, dst) ==
  /\ src # NULL
  /\ frame[f].owner = PageOwner(src)
  /\ page[src].frame # NULL
  /\ frame[page[src].frame].page = src
  /\ dst # NULL
  /\ page[dst].frame = NULL
  /\ PageOwner(dst) = t
  /\ table_lock = t

\* a variant of frame_do_eviction that forgets list_push_back
EvictList_no_push_back(l, f) == list_remove(l, f)

\* the frame list after frame_do_eviction: victim removed, then pushed back
EvictList(l, f) == list_push_back(list_remove(l, f), f)

\* a variant of frame_do_eviction that forgets f->__owner = dst->owner
EvictFrame_keeps_owner(fr, dst) == [fr EXCEPT !.page = dst]

\* the frame descriptor after the transfer to dst
EvictFrame(fr, dst) == [fr EXCEPT !.page = dst, !.owner = PageOwner(dst)]

\* src after the eviction: dirty made sticky, swapped out when dirty, unlinked
EvictPage(pg, dirty, slot) ==
  [frame |-> NULL,
   dirty |-> dirty,
   type  |-> IF dirty THEN "SWAP" ELSE pg.type,
   slot  |-> IF dirty THEN slot ELSE pg.slot]

\* rest of frame_alloc's eviction branch: frame_do_eviction (f->page, p),
\* lock_release (&table_lock), return f
EvictStep(t) ==
  /\ ~panicked
  /\ pc[t] = "evict"
  /\ LET v   == t_frame[t]
         src == frame[v].page
         dst == t_page[t]
     IN IF ~EvictAsserts(t, v, src, dst) \/ (EvictDirty(src) /\ swap_out = NULL)
        THEN Panic
        ELSE LET f == page[src].frame IN
             /\ frame_list' = EvictList(frame_list, f)
             /\ pd' = [pd EXCEPT ![src] = EvictPte(pd[src])]
             /\ page' = [page EXCEPT ![src] = EvictPage(page[src], EvictDirty(src), swap_out)]
             /\ swap_used' = IF EvictDirty(src) THEN swap_used \cup {swap_out} ELSE swap_used
             /\ frame' = [frame EXCEPT ![f] = EvictFrame(frame[f], dst)]
             /\ table_lock' = NULL
             /\ pc' = [pc EXCEPT ![t] = "holding"]
             /\ t_src' = [t_src EXCEPT ![t] = src]
             /\ scan' = NoScan
             /\ UNCHANGED <<pool, live, hand, mutex_lock, t_page, t_frame, panicked, pvars>>

(* ----------------- the caller of frame_alloc (page_load) --------------- *)
\* the page after page_load filled the frame: a SWAP page is read back
\* (swap_in frees its slot, the type is reset), p->frame is set
LoadedPage(p, f) ==
  [frame |-> f,
   dirty |-> page[p].dirty,
   type  |-> IF page[p].type = "SWAP" THEN InitType(p) ELSE page[p].type,
   slot  |-> NULL]

\* page_load after frame_alloc returned: fill the frame, install the
\* mapping p->upage -> f->kpage, clear the accessed and dirty bits
PageInstall(t) ==
  /\ ~panicked
  /\ pc[t] = "holding"
  /\ LET f == t_frame[t]
         p == t_page[t]
     IN /\ page' = [page EXCEPT ![p] = LoadedPage(p, f)]
        /\ swap_used' = IF page[p].type = "SWAP" THEN swap_used \ {page[p].slot} ELSE swap_used
        /\ pd' = [pd EXCEPT ![p] = [map |-> f, accessed |-> FALSE, dirty |-> FALSE]]
        /\ pc' = [pc EXCEPT ![t] = "installed"]
  /\ UNCHANGED <<pool, live, frame, frame_list, hand, table_lock, mutex_lock, t_page,
                 t_frame, t_src, panicked, scan, pvars>>

(* ---------------------------- frame_unlock ----------------------------- *)
\* frame_unlock (f): under mutex_lock, release f->lock
FrameUnlock(t) ==
  /\ ~panicked
  /\ pc[t] = "installed"
  /\ mutex_lock \in {NULL, t}          \* lock_acquire (&mutex_lock) blocks otherwise
  /\ LET f == t_frame[t] IN
     IF frame[f].lock # t \/ mutex_lock = t
     THEN Panic                        \* ASSERT in frame_unlock / in lock_acquire
     ELSE /\ frame' = [frame EXCEPT ![f].lock = NULL]
          /\ pc' = [pc EXCEPT ![t] = "idle"]
          /\ t_page' = [t_page EXCEPT ![t] = NULL]
          /\ t_frame' = [t_frame EXCEPT ![t] = NULL]
          /\ t_src' = [t_src EXCEPT ![t] = NULL]
          /\ UNCHANGED <<pool, live, frame_list, hand, table_lock, mutex_lock, page, pd,
                         swap_used, panicked, scan, pvars>>

(* ----------------------------- frame_free ------------------------------ *)
\* the user pool after frame_free (f): f->kpage is not handed back
FreePool(pl, f) == pl

\* frame_free (f): list_remove, free (f).  Called by page_load to roll back
\* a frame it could not fill or map.
FrameFree(t) ==
  /\ ~panicked
  /\ pc[t] = "holding"
  /\ LET f == t_frame[t] IN
     IF frame[f].lock # t
     THEN Panic                        \* ASSERT (lock_held_by_current_thread)
     ELSE /\ frame_list' = list_remove(frame_list, f)
          /\ live' = live \ {f}
          /\ frame' = [frame EXCEPT ![f] = NoFrame]
          /\ pool' = FreePool(pool, f)
          /\ pc' = [pc EXCEPT ![t] = "idle"]
          /\ t_page' = [t_page EXCEPT ![t] = NULL]
          /\ t_frame' = [t_frame EXCEPT ![t] = NULL]
          /\ t_src' = [t_src EXCEPT ![t] = NULL]
          /\ UNCHANGED <<hand, table_lock, mutex_lock, page, pd, swap_used, panicked, scan, pvars>>

(* ----------------------- frame_try_pin / frame_unpin ------------------- *)
\* success = f != NULL && !f->pinned, where a pinned byte nobody wrote yet
\* reads as `garbage'
try_pin_success(f, garbage) ==
  /\ f # NULL
  /\ ~(IF frame[f].pinned = "garbage" THEN garbage ELSE frame[f].pinned = "true")

\* mutex_lock when frame_try_pin returns: lock_release is the statement of
\* the else branch (the printf before it is commented out), so the success
\* path returns with mutex_lock held
try_pin_mutex(t, success) == IF success THEN t ELSE NULL

\* frame_try_pin (f): f->pinned is true afterwards, set on success and found
\* set on failure
FrameTryPin(t, f) ==
  /\ ~panicked
  /\ pc[t] = "idle"
  /\ f \in live \cup {NULL}
  /\ mutex_lock \in {NULL, t}          \* lock_acquire (&mutex_lock) blocks otherwise
  /\ IF mutex_lock = t
     THEN Panic                        \* ASSERT (!lock_held_by_current_thread (lock))
     ELSE \E garbage \in BOOLEAN :
          /\ frame' = IF f = NULL THEN frame ELSE [frame EXCEPT ![f].pinned = "true"]
          /\ mutex_lock' = try_pin_mutex(t, try_pin_success(f, garbage))
          /\ UNCHANGED <<pool, live, frame_list, hand, table_lock, page, pd, swap_used, pc,
                         t_page, t_frame, t_src, panicked, scan, pvars>>

\* frame_unpin (f)
FrameUnpin(t, f) ==
  /\ ~panicked
  /\ pc[t] = "idle"
  /\ f \in live
  /\ mutex_lock \in {NULL, t}          \* lock_acquire (&mutex_lock) blocks otherwise
  /\ IF mutex_lock = t
     THEN Panic                        \* ASSERT (!lock_held_by_current_thread (lock))
     ELSE /\ frame' = [frame EXCEPT ![f].pinned = "false"]
          /\ UNCHANGED <<pool, live, frame_list, hand, table_lock, mutex_lock, page, pd,
                         swap_used, pc, t_page, t_frame, t_src, panicked, scan, pvars>>

(* ------------------ frame_lock_acquire / frame_lock_release ------------ *)
\* frame_lock_acquire (f) by a thread that keeps the frame of one of its
\* resident pages in place (a system call working on a user buffer)
FrameLockAcquire(t, f) ==
  /\ ~panicked
  /\ pc[t] = "idle"
  /\ f \in live
  /\ frame[f].page # NULL
  /\ PageOwner(frame[f].page) = t
  /\ page[frame[f].page].frame = f
  /\ frame[f].lock \in {NULL, t}       \* lock_acquire (&f->lock) blocks otherwise
  /\ IF frame[f].lock = t
     THEN Panic                        \* ASSERT (!lock_held_by_current_thread (lock))
     ELSE /\ frame' = [frame EXCEPT ![f].lock = t]
          /\ UNCHANGED <<pool, live, frame_list, hand, table_lock, mutex_lock, page, pd,
                         swap_used, pc, t_page, t_frame, t_src, panicked, scan, pvars>>

\* frame_lock_release (f) by the thread that holds f->lock
FrameLockRelease(t, f) ==
  /\ ~panicked
  /\ pc[t] = "idle"
  /\ f \in live
  /\ frame[f].lock = t
  /\ frame' = [frame EXCEPT ![f].lock = NULL]
  /\ UNCHANGED <<pool, live, frame_list, hand, table_lock, mutex_lock, page, pd,
                 swap_used, pc, t_page, t_frame, t_src, panicked, scan, pvars>>

(* ------------------------------ user code ------------------------------ *)
\* the process owning p touches it: the MMU sets accessed, and dirty on a write
UserAccess(p, write) ==
  /\ ~panicked
  /\ pc[PageOwner(p)] = "idle"
  /\ pd[p].map # NULL
  /\ write => PageWritable(p)
  /\ pd' = [pd EXCEPT ![p].accessed = TRUE, ![p].dirty = @ \/ write]
  /\ pd' # pd
  /\ UNCHANGED <<pool, live, frame, frame_list, hand, table_lock, mutex_lock, page,
                 swap_used, pc, t_page, t_frame, t_src, panicked, scan, pvars>>

(* ======================= userprog/exception.c ========================= *)
\* A 32-bit virtual address is [pg, ofs]: its page number (pg_no) and its
\* offset in the page (pg_ofs); the order of addresses is the order of the
\* unsigned words.
PGSIZE == 4096
\* pages of the 4 GiB address space
VaPages == 1048576
PHYS_BASE == [pg |-> 786432, ofs |-> 0]            \* 0xc0000000
SYS_BAD_ADDR == [pg |-> 1048575, ofs |-> 4095]     \* 0xffffffff
\* #define STACK_MAX_SIZE (8 * 1024 * 1024)
STACK_MAX_SIZE == 8 * 1024 * 1024

AddrLt(a, b) == a.pg < b.pg \/ (a.pg = b.pg /\ a.ofs < b.ofs)
AddrLe(a, b) == ~AddrLt(b, a)
\* a - n in 32-bit pointer arithmetic (wraps below address 0)
AddrSub(a, n) ==
  [pg  |-> (a.pg + ((a.ofs - n) \div PGSIZE)) % VaPages,
   ofs |-> (a.ofs - n) % PGSIZE]
pg_round_down(a) == [pg |-> a.pg, ofs |-> 0]

\* a variant of stack_access without the esp - 32 test
stack_access_no_esp_test(vaddr, esp) ==
  /\ AddrLt(AddrSub(PHYS_BASE, STACK_MAX_SIZE), vaddr)
  /\ AddrLe(vaddr, AddrSub(PHYS_BASE, 1))

\* a variant of stack_access without the STACK_MAX_SIZE test
stack_access_no_size_test(vaddr, esp) ==
  /\ AddrLe(vaddr, AddrSub(PHYS_BASE, 1))
  /\ AddrLe(AddrSub(esp, 32), vaddr)

\* stack_access (vaddr, esp)
stack_access(vaddr, esp) ==
  /\ AddrLt(AddrSub(PHYS_BASE, STACK_MAX_SIZE), vaddr)
  /\ AddrLe(vaddr, AddrSub(PHYS_BASE, 1))
  /\ AddrLe(AddrSub(esp, 32), vaddr)

(* ------------------------- the faults taken ---------------------------- *)
\* user stack pointers: near the top of the stack, on a page boundary, near
\* the 8 MiB limit, and near address 0
EspTop == [pg |-> 786431, ofs |-> 4092]             \* 0xbffffffc
EspPage == [pg |-> 786431, ofs |-> 0]               \* 0xbffff000
EspLow == [pg |-> 784384, ofs |-> 16]               \* PHYS_BASE - 8 MiB + 16
EspZero == [pg |-> 0, ofs |-> 16]                   \* 0x00000010
EspValues == {EspTop, EspPage, EspLow, EspZero}
\* esp of the interrupt frame of a fault taken in the kernel (a kernel stack)
KernelEsp == [pg |-> 786688, ofs |-> 3840]          \* 0xc0100f00

CodeAddr == [pg |-> 32840, ofs |-> 0]               \* 0x08048000
FaultAddrs ==
  { [pg |-> 0, ofs |-> 0],                          \* NULL
    CodeAddr,
    AddrSub(PHYS_BASE, STACK_MAX_SIZE + 16),        \* 16 bytes below the limit
    AddrSub(PHYS_BASE, STACK_MAX_SIZE + 1),
    AddrSub(PHYS_BASE, STACK_MAX_SIZE),
    AddrSub(PHYS_BASE, STACK_MAX_SIZE - 1),
    AddrSub(EspTop, 256), AddrSub(EspTop, 33), AddrSub(EspTop, 32), AddrSub(EspTop, 4),
    AddrSub(EspPage, 33), AddrSub(EspPage, 32), AddrSub(EspPage, 4),
    AddrSub(PHYS_BASE, 1),
    PHYS_BASE,
    SYS_BAD_ADDR }
PFPages == {a.pg : a \in FaultAddrs}

\* values eax holds when the fault is taken
EaxValues == {[pg |-> 786700, ofs |-> 100], [pg |-> 32840, ofs |-> 64]}
FaultEip == [pg |-> 786700, ofs |-> 8]

NoEntry == [type |-> "none", writable |-> FALSE]
NoFault == [handled |-> FALSE, addr |-> PHYS_BASE, esp |-> PHYS_BASE, user |-> FALSE,
            not_present |-> FALSE, write |-> FALSE, had_entry |-> FALSE,
            eip |-> FaultEip, eax |-> FaultEip]

InitPF ==
  \* the loader registered the code page; nothing is loaded yet
  /\ spt = [pg \in PFPages |-> IF pg = CodeAddr.pg THEN [type |-> "FILE", writable |-> FALSE]
                                ELSE NoEntry]
  /\ present = {}
  /\ proc = "running"
  /\ exit_status = 0
  /\ regs = [eip |-> FaultEip, eax |-> FaultEip]
  /\ stack_pages = {}
  /\ pf = NoFault

Init == InitFrame /\ InitPF

(* ----------------------------- page_fault ------------------------------ *)
\* esp = user ? f->esp : cur->saved_esp
fault_esp(user, f_esp, saved_esp) == IF user THEN f_esp ELSE saved_esp

\* page_make_entry (fault_page): NULL when the page has an entry already
page_make_entry(pg) == spt[pg] = NoEntry

\* the SPT after the stack-growth block of page_fault
GrownSpt(vaddr, esp) ==
  LET pg == pg_round_down(vaddr).pg IN
  IF stack_access(vaddr, esp) /\ page_make_entry(pg)
  THEN [spt EXCEPT ![pg] = [type |-> "ZERO", writable |-> TRUE]]
  ELSE spt

\* page_load (fault_page) on the SPT t: fails without an entry, and when no
\* frame can be filled or mapped (load_ok false)
page_load(t, pg, load_ok) == t[pg] # NoEntry /\ load_ok

\* kill (f): what becomes of the process, by the code segment of the frame
kill(cs) ==
  CASE cs = "SEL_UCSEG" -> "exited"
    [] cs = "SEL_KCSEG" -> "panic"
    [] OTHER -> "exited"

\* how page_fault leaves: "resume" (page loaded), "exit" (sys_exit (-1) after
\* a failed load), "bad_addr" (eip and eax rewritten) or "kill"
fault_exit(user, not_present, loaded) ==
  IF not_present
  THEN IF loaded THEN "resume" ELSE "exit"
  ELSE IF ~user THEN "bad_addr" ELSE "kill"

\* page_fault (f) for a fault at vaddr
PageFault(vaddr, user, write, not_present, f_esp, saved_esp, eax, load_ok) ==
  LET esp    == fault_esp(user, f_esp, saved_esp)
      pg     == pg_round_down(vaddr).pg
      spt1   == GrownSpt(vaddr, esp)
      loaded == page_load(spt1, pg, load_ok)
      how    == fault_exit(user, not_present, loaded)
  IN
  /\ proc = "running"
  /\ spt' = spt1
  /\ stack_pages' = IF spt1 # spt THEN stack_pages \cup {pg} ELSE stack_pages
  /\ present' = IF how = "resume" THEN present \cup {pg} ELSE present
  /\ proc' = CASE how = "exit" -> "exited"
               [] how = "kill" -> kill(IF user THEN "SEL_UCSEG" ELSE "SEL_KCSEG")
               [] OTHER -> "running"
  /\ exit_status' = IF proc' = "exited" THEN -1 ELSE exit_status
  /\ regs' = IF how = "bad_addr" THEN [eip |-> eax, eax |-> SYS_BAD_ADDR]
             ELSE [eip |-> FaultEip, eax |-> eax]
  /\ pf' = [handled |-> TRUE, addr |-> vaddr, esp |-> esp, user |-> user,
            not_present |-> not_present, write |-> write,
            had_entry |-> spt[pg] # NoEntry, eip |-> FaultEip, eax |-> eax]
  /\ UNCHANGED fvars

\* the faults the MMU can raise in the state: not-present on an unmapped user
\* page, a rights violation on a write to a mapped read-only page or on a user
\* access to a kernel address
CanFault(vaddr, user, write, not_present) ==
  IF AddrLt(vaddr, PHYS_BASE)
  THEN IF vaddr.pg \in present
       THEN ~not_present /\ write /\ ~spt[vaddr.pg].writable
       ELSE not_present
  ELSE user \/ not_present

\* a fault taken in user mode
UserFault ==
  \E vaddr \in FaultAddrs, write \in BOOLEAN, not_present \in BOOLEAN,
     f_esp \in EspValues, eax \in EaxValues, load_ok \in BOOLEAN :
    /\ CanFault(vaddr, TRUE, write, not_present)
    /\ PageFault(vaddr, TRUE, write, not_present, f_esp, EspTop, eax, load_ok)

\* a fault taken in the kernel (get_user, put_user on a user pointer)
KernelFault ==
  \E vaddr \in FaultAddrs, write \in BOOLEAN, not_present \in BOOLEAN,
     saved_esp \in EspValues, eax \in EaxValues, load_ok \in BOOLEAN :
    /\ CanFault(vaddr, FALSE, write, not_present)
    /\ PageFault(vaddr, FALSE, write, not_present, KernelEsp, saved_esp, eax, load_ok)

NextPF == UserFault \/ KernelFault

SpecPF == Init /\ [][NextPF]_vars

(* -------------------------------- Spec --------------------------------- *)
\* the frame table without callers of frame_try_pin / frame_unpin
NextVM ==
  \/ \E t \in Threads, p \in Pages : FrameAllocFresh(t, p)
  \/ \E t \in Threads, p \in Pages : FrameAllocEvict(t, p)
  \/ \E t \in Threads : SweepStep(t)
  \/ \E t \in Threads : EvictStep(t)
  \/ \E t \in Threads : PageInstall(t)
  \/ \E t \in Threads : FrameUnlock(t)
  \/ \E t \in Threads : FrameFree(t)
  \/ \E p \in Pages, w \in BOOLEAN : UserAccess(p, w)

\* the frame table with every operation of frame.h
Next ==
  \/ \E t \in Threads, p \in Pages : FrameAllocFresh(t, p)
  \/ \E t \in Threads, p \in Pages : FrameAllocEvict(t, p)
  \/ \E t \in Threads : SweepStep(t)
  \/ \E t \in Threads : EvictStep(t)
  \/ \E t \in Threads : PageInstall(t)
  \/ \E t \in Threads : FrameUnlock(t)
  \/ \E t \in Threads : FrameFree(t)
  \/ \E t \in Threads, f \in Frames \cup {NULL} : FrameTryPin(t, f)
  \/ \E t \in Threads, f \in Frames : FrameUnpin(t, f)
  \/ \E p \in Pages, w \in BOOLEAN : UserAccess(p, w)

Spec == Init /\ [][Next]_vars

\* frame_try_pin and frame_unpin write f->pinned and mutex_lock only, and
\* nothing but frame_unlock's lock_acquire (&mutex_lock) reads either: a run
\* of Spec is a run of SpecVM with stuttering steps and, where mutex_lock is
\* never released, with frame_unlock not taken.
SpecVM == Init /\ [][NextVM]_vars

\* the frame table with threads that also lock frames of their own pages.
\* Every thread that can take a step of its own takes one eventually (the
\* scheduler is round-robin and preemptive).
ThreadStep(t) ==
  \/ \E p \in Pages : FrameAllocFresh(t, p)
  \/ \E p \in Pages : FrameAllocEvict(t, p)
  \/ SweepStep(t)
  \/ EvictStep(t)
  \/ PageInstall(t)
  \/ FrameUnlock(t)
  \/ FrameFree(t)
  \/ \E f \in Frames : FrameLockAcquire(t, f)
  \/ \E f \in Frames : FrameLockRelease(t, f)

NextLock ==
  \/ \E t \in Threads : ThreadStep(t)
  \/ \E p \in Pages, w \in BOOLEAN : UserAccess(p, w)

SpecLock == Init /\ [][NextLock]_vars /\ \A t \in Threads : WF_vars(ThreadStep(t))


(* ----------------------- the list and the hand alone ------------------- *)
\* What frame_alloc, frame_get_victim and frame_do_eviction do to frame_list
\* and hand does not depend on what the frames hold.  This view follows the
\* list and the hand for a user pool of HandFrames pages and leaves open which
\* frames are locked or accessed: every advance of the hand either skips the
\* frame or takes it as victim.
HandFrames == 4

InitHand ==
  /\ pool = 1..HandFrames
  /\ live = {}
  /\ frame = [f \in Frames |-> NoFrame]
  /\ frame_list = <<>>
  /\ hand = NULL
  /\ table_lock = NULL
  /\ mutex_lock = NULL
  /\ page = [p \in Pages |-> [frame |-> NULL, dirty |-> FALSE, type |-> InitType(p), slot |-> NULL]]
  /\ pd = [p \in Pages |-> [map |-> NULL, accessed |-> FALSE, dirty |-> FALSE]]
  /\ swap_used = {}
  /\ pc = [t \in Threads |-> "idle"]
  /\ t_page = [t \in Threads |-> NULL]
  /\ t_frame = [t \in Threads |-> NULL]
  /\ t_src = [t \in Threads |-> NULL]
  /\ panicked = FALSE
  /\ scan = NoScan
  /\ InitPF

\* frame_alloc, f->kpage != NULL branch: list_push_back
HandAlloc(t) ==
  /\ pc[t] = "idle"
  /\ table_lock = NULL
  /\ palloc_get_page # NULL
  /\ pool' = pool \ {palloc_get_page}
  /\ frame_list' = list_push_back(frame_list, palloc_get_page)
  /\ UNCHANGED <<live, frame, hand, table_lock, mutex_lock, page, pd, swap_used, pc,
                 t_page, t_frame, t_src, panicked, scan, pvars>>

\* frame_alloc, f->kpage == NULL branch: lock_acquire (&table_lock) and the
\* entry of frame_get_victim
HandStart(t) ==
  /\ pc[t] = "idle"
  /\ table_lock = NULL
  /\ palloc_get_page = NULL
  /\ table_lock' = t
  /\ pc' = [pc EXCEPT ![t] = "sweep"]
  /\ UNCHANGED <<pool, live, frame, frame_list, hand, mutex_lock, page, pd, swap_used,
                 t_page, t_frame, t_src, panicked, scan, pvars>>

\* an iteration of frame_get_victim that ends in `continue'
HandSkip(t) ==
  /\ pc[t] = "sweep"
  /\ \E f \in frame_advance_hand : hand' = f
  /\ UNCHANGED <<pool, live, frame, frame_list, table_lock, mutex_lock, page, pd,
                 swap_used, pc, t_page, t_frame, t_src, panicked, scan, pvars>>

\* the iteration that returns f (list_remove), frame_do_eviction
\* (list_remove, list_push_back), lock_release (&table_lock) and, in the
\* caller, frame_unlock
HandVictim(t) ==
  /\ pc[t] = "sweep"
  /\ \E f \in frame_advance_hand :
       /\ hand' = f
       /\ frame_list' = EvictList(list_remove(frame_list, f), f)
  /\ table_lock' = NULL
  /\ pc' = [pc EXCEPT ![t] = "idle"]
  /\ UNCHANGED <<pool, live, frame, mutex_lock, page, pd, swap_used, t_page, t_frame,
                 t_src, panicked, scan, pvars>>

NextHand ==
  \/ \E t \in Threads : HandAlloc(t)
  \/ \E t \in Threads : HandStart(t)
  \/ \E t \in Threads : HandSkip(t)
  \/ \E t \in Threads : HandVictim(t)

SpecHand == InitHand /\ [][NextHand]_vars

(* ============================== claims ================================= *)
BeingEvicted(f) == \E t \in Threads : pc[t] = "evict" /\ t_frame[t] = f
NoDup(l) == \A i, j \in 1..Len(l) : l[i] = l[j] => i = j
\* thread t's frame_get_victim returns in this step
Selects(t) == pc[t] = "sweep" /\ pc'[t] = "evict"
\* thread t's frame_do_eviction runs, and frame_alloc returns, in this step
Evicts(t) == pc[t] = "evict" /\ pc'[t] = "holding"

\* C1: a frame that frame_try_pin pinned is never the frame frame_get_victim
\* returns: at the step that selects a victim, the victim's pinned is not true.
C1_PinnedNeverVictim ==
  [][\A t \in Threads : Selects(t) => frame[t_frame'[t]].pinned # "true"]_vars

\* C3: the page/frame links are a bijection in every state: p.frame = f
\* exactly when f.page = p, for every page p and every frame descriptor f.
C3_Bijection ==
  \A p \in Pages, f \in live : (page[p].frame = f) <=> (frame[f].page = p)

\* C4: frame_try_pin on a frame whose pinned is true returns false (it
\* returns: no failed assertion, mutex_lock released) and leaves pinned true.
C4_SecondTryPinFails ==
  [][\A t \in Threads, f \in Frames :
       (FrameTryPin(t, f) /\ frame[f].pinned = "true")
         => (~panicked' /\ mutex_lock' = NULL /\ frame'[f].pinned = "true")]_vars

\* C8: a frame that was freed is not in the frame list and its physical page
\* is back in the user pool (so that frame_alloc gets it as a fresh frame).
C8_FreedFrameBackInPool ==
  \A f \in Frames : f \notin live => (f \in pool /\ ~InList(frame_list, f))

\* C9: no frame is twice in the frame list; a frame is in the list exactly
\* when it is allocated and not being evicted; the step that selects a victim
\* takes it out of the list and the step that ends its eviction puts it back
\* at the tail, the other listed frames staying as they are.
C9_Membership ==
  /\ NoDup(frame_list)
  /\ \A f \in Frames : InList(frame_list, f) <=> (f \in live /\ ~BeingEvicted(f))
C9_Steps ==
  \A t \in Threads :
    /\ Selects(t) => /\ InList(frame_list, t_frame'[t])
                     /\ Len(frame_list') = Len(frame_list) - 1
    /\ Evicts(t) => /\ frame_list' = Append(frame_list, t_frame[t])
C9_FrameList == []C9_Membership /\ [][C9_Steps]_vars
\* an eviction completed with two frames listed, the victim at the tail
C9_Witness ==
  \E t \in Threads :
    /\ pc[t] = "holding" /\ t_src[t] # NULL
    /\ Len(frame_list) = 2 /\ frame_list[2] = t_frame[t]

\* C10: when an eviction src -> dst completes, src's PTE maps nothing,
\* src.frame is NULL and the frame records page = dst; and in every state a
\* PTE maps a page to a frame only while that frame holds the page.
C10_MapsOwnFrame ==
  \A p \in Pages : pd[p].map # NULL => frame[pd[p].map].page = p
C10_Steps ==
  \A t \in Threads :
    Evicts(t) => LET f == t_frame[t]
                     src == frame[f].page
                 IN /\ pd'[src].map = NULL
                    /\ page'[src].frame = NULL
                    /\ frame'[f].page = t_page[t]
                    /\ t_page[t] # src
C10_EvictionUnmaps == []C10_MapsOwnFrame /\ [][C10_Steps]_vars
\* an eviction completed: src is unmapped and the frame belongs to dst
C10_Witness ==
  \E t \in Threads :
    /\ pc[t] = "holding" /\ t_src[t] # NULL
    /\ pd[t_src[t]].map = NULL /\ page[t_src[t]].frame = NULL
    /\ frame[t_frame[t]].page = t_page[t]

(* --------------------------- page_fault claims ------------------------- *)
\* the stack-growth test as the specification words it: fault_page lies in
\* [PHYS_BASE - 8 MiB, PHYS_BASE) and the address is at most 32 bytes below esp
InStackRegion(vaddr) ==
  /\ PHYS_BASE.pg - (STACK_MAX_SIZE \div PGSIZE) <= vaddr.pg
  /\ vaddr.pg < PHYS_BASE.pg
AtMost32Below(vaddr, esp) ==
  \/ AddrLe(esp, vaddr)
  \/ /\ esp.pg - vaddr.pg <= 1
     /\ (esp.pg - vaddr.pg) * PGSIZE + esp.ofs - vaddr.ofs <= 32
StackGrowthTest(vaddr, esp) == InStackRegion(vaddr) /\ AtMost32Below(vaddr, esp)
\* the fault handled last was on a page without SPT entry
FreshFault == pf.handled /\ ~pf.had_entry

\* C2: a not-present fault from kernel mode on a page with no SPT entry and
\* outside the stack-growth window ends with eip = the old eax,
\* eax = SYS_BAD_ADDR and the process still running.
C2_KernelBadAddress ==
  (FreshFault /\ ~pf.user /\ pf.not_present /\ ~StackGrowthTest(pf.addr, pf.esp))
    => (proc = "running" /\ regs = [eip |-> pf.eax, eax |-> SYS_BAD_ADDR])

\* C5: a not-present fault from user mode on a page with no SPT entry that
\* fails the stack-growth test makes no SPT entry and ends the process with
\* exit status -1, without kernel panic and with eip and eax as they were.
C5_UserBadAddress ==
  (FreshFault /\ pf.user /\ pf.not_present /\ ~StackGrowthTest(pf.addr, pf.esp))
    => /\ spt[pf.addr.pg] = NoEntry
       /\ proc = "exited" /\ exit_status = -1
       /\ regs = [eip |-> pf.eip, eax |-> pf.eax]
\* the wild write 256 bytes below esp = 0xbffffffc was handled
C5_Witness ==
  /\ FreshFault /\ pf.user /\ pf.not_present /\ pf.write
  /\ pf.esp = EspTop /\ pf.addr = AddrSub(EspTop, 256)
  /\ proc = "exited"

\* C6: a fault on a page without SPT entry gets a ZERO, writable entry for
\* fault_page exactly when fault_page lies in [PHYS_BASE - 8 MiB, PHYS_BASE)
\* and the address is at most 32 bytes below esp.
C6_StackTestExact ==
  FreshFault => ( (spt[pf.addr.pg] = [type |-> "ZERO", writable |-> TRUE])
                    <=> StackGrowthTest(pf.addr, pf.esp) )

\* C7: every SPT entry the stack-growth path made is for a page in
\* [PHYS_BASE - 8 MiB, PHYS_BASE).
C7_StackLimit ==
  \A pg \in stack_pages :
    /\ PHYS_BASE.pg - (STACK_MAX_SIZE \div PGSIZE) <= pg
    /\ pg < PHYS_BASE.pg
\* the stack grew into its lowest and into its highest page
C7_Witness ==
  /\ (PHYS_BASE.pg - (STACK_MAX_SIZE \div PGSIZE)) \in stack_pages
  /\ (PHYS_BASE.pg - 1) \in stack_pages

(* --------------------------- clock sweep claims ------------------------ *)
\* C12: second chance.  A frame is selected only if the accessed bit of its
\* page is clear at selection; an unlocked frame whose bit is set is skipped
\* with the bit cleared; and when at the entry of frame_get_victim every
\* listed frame is unlocked with its bit set, no frame is selected before the
\* hand reached every listed frame once, and the frame selected right after
\* that one pass is the first frame the call examined.
C12_Select(t) ==
  Selects(t) =>
    LET v == t_frame'[t] IN
    /\ ~pd[frame[v].page].accessed
    /\ scan.allset =>
         /\ Len(scan.seen) >= Len(frame_list)
         /\ Len(scan.seen) = Len(frame_list) =>
              /\ \A i \in 1..Len(frame_list) : InList(scan.seen, frame_list[i])
              /\ v = scan.seen[1]
C12_Skip(t) ==
  (SweepStep(t) /\ ~panicked') =>
    LET f == hand'
        p == frame[f].page
    IN (frame[f].lock = NULL /\ pd[p].accessed) =>
         /\ pc'[t] = "sweep"
         /\ ~pd'[p].accessed
         /\ frame'[f].lock = NULL /\ InList(frame_list', f)
C11_SweepCanEnd ==
  \A t \in Threads :
    (pc[t] = "sweep" /\ frame_list # <<>>)
      => \E i \in 1..Len(frame_list) : frame[frame_list[i]].lock # t


\* C13: an eviction takes a free swap slot for src and sets src.type = SWAP
\* exactly when src.dirty or the dirty bit of src's PTE is set; src.dirty is
\* then true; the eviction of a clean page takes no slot and leaves src.type
\* and src.slot as they are; and src.dirty, once true, stays true.
C13_Evict(t) ==
  Evicts(t) =>
    LET src == frame[t_frame[t]].page
        d   == page[src].dirty \/ pd[src].dirty
    IN /\ page'[src].dirty = d
       /\ d => /\ page'[src].type = "SWAP"
               /\ page'[src].slot \in Slots \ swap_used
               /\ swap_used' = swap_used \cup {page'[src].slot}
       /\ ~d => /\ swap_used' = swap_used
                /\ page'[src].type = page[src].type
                /\ page'[src].slot = page[src].slot
C13_Sticky == \A p \in Pages : page[p].dirty => page'[p].dirty
HeldBy(t) == {f \in Frames : frame[f].lock = t}
\* C14: locks are taken in the order table lock -> frame lock: a thread that
\* called frame_alloc and is in the sweep holds no frame lock, and after it
\* chose a victim it holds the victim's lock only; and no reachable state is
\* a deadlock: unless the kernel panicked, some thread can take a step that
\* changes the state.
C14_LockOrder ==
  \A t \in Threads :
    /\ pc[t] = "sweep" => HeldBy(t) = {}
    /\ pc[t] = "evict" => HeldBy(t) = {t_frame[t]}
C14_NoDeadlock == C14_LockOrder /\ (panicked \/ ENABLED <<Next>>_vars)


\* C15: the frame list and the hand change only in steps of the thread that
\* holds the table lock: while a thread holds it (it is in frame_get_victim
\* or frame_do_eviction), no step of another thread changes the list or the
\* hand.
C15_TableLockGuards ==
  [][\A t \in Threads :
       (table_lock = t /\ (frame_list' # frame_list \/ hand' # hand))
         => (SweepStep(t) \/ EvictStep(t))]_vars


(* ------------------------------ hand claims ---------------------------- *)
\* the frame after v in list l, the head when v is the last one
FormerSuccessor(l, v) ==
  IF IndexOf(l, v) = Len(l) THEN Head(l) ELSE l[IndexOf(l, v) + 1]
\* C16: when a sweep ends with the frame under the hand evicted and back at
\* the tail of the list, the frame the next sweep examines first is the one
\* that followed the victim in the list before (the head if the victim was
\* the last), so that no frame between the victim's place and the tail is
\* passed over.
C16_HandAfterEviction ==
  [][\A t \in Threads :
       (pc[t] = "sweep" /\ pc'[t] = "idle")
         => frame_advance_hand' = {FormerSuccessor(frame_list, hand')}]_vars


\* thread t is between the return of its frame_alloc and its frame_unlock or
\* frame_free
InFlux(t) == pc[t] \in {"holding", "installed"}
\* C17: from the return of frame_alloc (fresh frame or victim) until the
\* caller gives the frame up, the caller holds the frame's lock and not the
\* table lock, the frame keeps the caller's page and owner, and no other
\* thread has got the same frame from frame_alloc.
C17_FrameInFlux ==
  \A t \in Threads :
    InFlux(t) =>
      /\ t_frame[t] \in live
      /\ frame[t_frame[t]].lock = t
      /\ frame[t_frame[t]].page = t_page[t]
      /\ frame[t_frame[t]].owner = t
      /\ table_lock # t
      /\ \A u \in Threads \ {t} : InFlux(u) => t_frame[u] # t_frame[t]
\* a thread holds a frame it got by eviction while the sweep of another
\* thread has reached that frame
C17_Witness ==
  \E t \in Threads, u \in Threads :
    /\ InFlux(t) /\ t_src[t] # NULL
    /\ pc[u] = "sweep" /\ hand = t_frame[t] /\ InList(scan.seen, t_frame[t])


\* C18: whenever the table lock is free, every listed frame's __owner is the
\* owner of the frame's page; and every frame frame_get_victim returns has a
\* page and passes ASSERT (f->__owner == f->page->owner), also after the
\* frame went from one process to another.
C18_Listed ==
  table_lock = NULL =>
    \A i \in 1..Len(frame_list) :
      /\ frame[frame_list[i]].page # NULL
      /\ frame[frame_list[i]].owner = PageOwner(frame[frame_list[i]].page)
C18_Victim(t) ==
  Selects(t) => /\ frame[t_frame'[t]].page # NULL
                /\ frame[t_frame'[t]].owner = PageOwner(frame[t_frame'[t]].page)
C18_OwnerConsistent == []C18_Listed /\ [][\A t \in Threads : C18_Victim(t)]_vars
\* a frame was taken from the other process, and a page evicted before it
\* sits in the swap
C18_Witness ==
  \E t \in Threads, p \in Pages :
    /\ pc[t] = "holding" /\ t_src[t] # NULL
    /\ PageOwner(t_src[t]) # t /\ frame[t_frame[t]].owner = t
    /\ p # t_src[t] /\ page[p].type = "SWAP"


\* C19: frame_try_pin, frame_unpin and frame_unlock release mutex_lock on
\* every return path: the caller never holds it when the call has returned.
C19_MutexReleased ==
  [][\A t \in Threads :
       ((\E f \in Frames \cup {NULL} : FrameTryPin(t, f))
          \/ (\E f \in Frames : FrameUnpin(t, f))
          \/ FrameUnlock(t))
         => (panicked' \/ mutex_lock' # t)]_vars


\* C20: whenever a clock sweep begins, the hand is unset or refers to a frame
\* that is in the list, also after frame_free removed the frame the hand
\* referred to.
C20_HandListedAtSweepStart ==
  [][\A t \in Threads :
       (pc[t] = "idle" /\ pc'[t] = "sweep")
         => (hand = NULL \/ InList(frame_list, hand))]_vars

=============================================================================
